---- MODULE Spec2Model ----
(***************************************************************************)
(* Model of the ingestion pipeline of csv_to_db:                           *)
(*   src/src/preprocessor.py  CsvPreprocessor (ledger, reader, transform,  *)
(*                            process_all_files_to_db with its compaction) *)
(*   src/src/db.py            DatabaseManager (execute_query,              *)
(*                            get_table_info, import_dataframe)            *)
(* One behaviour is a sequence of runs of process_all_files_to_db over the *)
(* same candidate list.  Between two runs the environment may change the   *)
(* content of a file and the process may be restarted (the ledger is then  *)
(* loaded again from its file).  Every file access and every store         *)
(* statement may fail; the number of failures in one behaviour is bounded. *)
(*   Spec         the runs, with failures                                  *)
(*   SpecNoFault  the runs in which nothing fails from outside             *)
(*   SpecReader   one source text through the reader and the transform     *)
(***************************************************************************)
EXTENDS Integers, Sequences, FiniteSets, TLC

\* ------------------------------------------------------------------ bounds
NumFiles == 3      \* candidate files of a run
batch_size == 2    \* files per batch (parameter of process_all_files_to_db)
chunk_size == 1    \* rows per chunk (parameter of import_dataframe)
MaxRuns == 2       \* runs of the batch ingest in one behaviour
MaxFaults == 2     \* failed file accesses / store statements in one behaviour
MaxMutations == 1  \* rewrites of a file by the environment in one behaviour
MaxContent == 4    \* file contents are 0..MaxContent
NumSensors == 2    \* sensor columns of a valid file
NumDays == 2       \* distinct calendar days the files' TIME values fall on
MaxSensorCols == 2 \* reader: sensor ids, names, units in a header line
MaxDataLines == 2  \* reader: lines after the three header lines
MaxValues == 3     \* reader: non-empty leading fields of a data line
MaxTrailing == 2   \* reader: empty fields at the end of a data line

Files == 1..NumFiles
Contents == 0..MaxContent

\* The candidate list: file descriptors in discovery order.  A descriptor is
\* identified by its path (plain path or archive::member), here its index.
csv_files == [k \in 1..NumFiles |-> k]

Min(a, b) == IF a < b THEN a ELSE b

\* ------------------------------------------------------- files and content
\* Content 0 is a source with 3 lines only; content 1 has 4 lines but its
\* data line carries too few fields; contents >= 2 are valid versions with
\* one data row whose sensor values all equal the content number.  The TIME
\* values of content MaxContent match neither datetime format: the transform
\* keeps them as text (written here as the negative of the time).
NumLines(c) == IF c = 0 THEN 3 ELSE 4
DataRows(c) == IF c <= 1 THEN 0 ELSE 1
TimeOf(f) == ((f - 1) % NumDays) + 1
TextTime(c) == c = MaxContent
DayOf(t) == t

\* _calculate_file_hash: the digest of the bytes, "" when the file, archive
\* or member cannot be opened.  The digest is injective on Contents.
EmptyHash == <<>>
MD5(c) == <<"md5", c>>
CalculateFileHash(c, ok) == IF ok THEN MD5(c) ELSE EmptyHash

\* _is_processed, given the fingerprint it computed
IsProcessed(ledger, f, h) == f \in DOMAIN ledger /\ ledger[f].hash = h

\* a mark that is lost
MarkAsProcessedLost(ledger, f, h, now) == ledger

\* _mark_as_processed: upsert {hash, timestamp} under the file's identity
MarkAsProcessed(ledger, f, h, now) ==
    [g \in (DOMAIN ledger) \cup {f} |->
        IF g = f THEN [hash |-> h, timestamp |-> now] ELSE ledger[g]]

\* The ledger file: missing, a JSON document, or bytes json.load rejects.
\* A document is the set of its members <<path, hash, timestamp>>.
NoLedgerFile == [state |-> "missing", doc |-> {}]
JsonDump(ledger) == {<<f, ledger[f].hash, ledger[f].timestamp>> : f \in DOMAIN ledger}
JsonLoad(doc) ==
    [f \in {t[1] : t \in doc} |->
        LET t == CHOOSE u \in doc : u[1] = f
        IN  [hash |-> t[2], timestamp |-> t[3]]]

\* a save that writes nothing
SaveProcessedFilesSkipped(disk, ledger, out) == disk

\* _save_processed_files: the whole mapping is written over the file; an
\* error is logged.  The error is raised either by open (the file is left as
\* it was) or by the write after open has emptied the file (the file then
\* holds the members written so far without the end of the document).
SaveOutcomes == {"written", "not_opened", "truncated"}
SaveProcessedFiles(disk, ledger, out) ==
    CASE out = "written" -> [state |-> "ok", doc |-> JsonDump(ledger)]
      [] out = "not_opened" -> disk
      [] out = "truncated" -> [state |-> "corrupt", doc |-> JsonDump(ledger)]

\* a load that reads whatever members the file holds
LoadedLedgerLenient(disk, ok) == JsonLoad(disk.doc)

\* _load_processed_files: the parsed document; {} when the file is missing,
\* cannot be read or cannot be parsed
LoadedLedger(disk, ok) ==
    IF disk.state = "ok" /\ ok THEN JsonLoad(disk.doc) ELSE << >>

\* a reader without the line count check
ReadSpecialCsvAny(c, ok) == ok

\* _read_special_csv / the archive branch of process_file: None (FALSE here)
\* when the source cannot be read or has fewer than 4 lines
ReadSpecialCsv(c, ok) == ok /\ NumLines(c) >= 4

\* _transform_to_vertical raises when the frame has no TIME column, which is
\* the case when no data line was accepted
TransformFails(c) == DataRows(c) = 0

\* _transform_to_vertical: sensor by sensor, one record per data row
LongRecords(f, c) ==
    [s \in 1..(NumSensors * DataRows(c)) |->
        [TIME |-> IF TextTime(c) THEN 0 - TimeOf(f) ELSE TimeOf(f),
         SENSOR_ID |-> s, VALUE |-> c, file_name |-> f]]

\* the type the store gives the TIME column of a frame: TIMESTAMP for parsed
\* datetimes, VARCHAR for text
TimeTypeOf(df) ==
    IF \E k \in DOMAIN df : df[k].TIME < 0 THEN "VARCHAR" ELSE "TIMESTAMP"

\* ------------------------------------------------------------------- store
NoTable == [exists |-> FALSE, rows |-> <<>>, time_type |-> "none"]

\* import_dataframe: the frame is cut into chunks of chunk_size rows
NumChunks(df) == (Len(df) + chunk_size - 1) \div chunk_size

\* the table after the first n chunks of df were written (the first chunk
\* creates the table when it does not exist)
TableAfterChunks(tbl, df, n) ==
    IF n = 0 THEN tbl
    ELSE [exists |-> TRUE,
          rows |-> tbl.rows \o SubSeq(df, 1, Min(n * chunk_size, Len(df))),
          time_type |-> IF tbl.exists THEN tbl.time_type ELSE TimeTypeOf(df)]

\* INSERT INTO <table> SELECT * FROM chunk (line 333) casts the chunk's TIME
\* to the type of the column: text that is no timestamp cannot be cast to
\* TIMESTAMP and the statement raises
InsertRaises(tbl, df) ==
    tbl.exists /\ tbl.time_type = "TIMESTAMP" /\ TimeTypeOf(df) = "VARCHAR"

\* lines 277-330: a frame of datetimes meets a TIME column that is not
\* TIMESTAMP.  Whether str(dtype).lower() == "datetime" holds depends on how
\* the installed polars prints the type; when it holds the table is copied
\* aside, dropped and created again with TIME as TIMESTAMP, and the copy
\* back raises on the text the column holds
MayRecreate(tbl, df) ==
    tbl.exists /\ tbl.time_type = "VARCHAR" /\ TimeTypeOf(df) = "TIMESTAMP"
Recreated == [exists |-> TRUE, rows |-> << >>, time_type |-> "TIMESTAMP"]

\* import_dataframe: what a call can do to the table, whether it returns
\* True, and the store failures it takes
ImportOutcomes(tbl, df) ==
    IF InsertRaises(tbl, df)
    THEN {[table |-> tbl, ok |-> FALSE, cost |-> 0]}
    ELSE {[table |-> TableAfterChunks(tbl, df, n),
           ok |-> n = NumChunks(df),
           cost |-> IF n = NumChunks(df) THEN 0 ELSE 1] : n \in 0..NumChunks(df)}
         \cup (IF MayRecreate(tbl, df)
               THEN {[table |-> Recreated, ok |-> FALSE, cost |-> 0]}
               ELSE {})

\* ------------------------------------------------------------- compaction
Key(r) == <<r.TIME, r.SENSOR_ID>>
Keys(rows) == {Key(rows[k]) : k \in DOMAIN rows}

\* SELECT DISTINCT DATE_TRUNC('day', TIME) ... ORDER BY date_day
DaySet(rows) == {DayOf(rows[k].TIME) : k \in DOMAIN rows}
RECURSIVE SortedSeq(_)
SortedSeq(S) ==
    IF S = {} THEN << >>
    ELSE LET m == CHOOSE x \in S : \A y \in S : x <= y
         IN  <<m>> \o SortedSeq(S \ {m})

\* the rows of the given positions, in table order
RowsAt(rows, P) ==
    LET F[k \in 0..Len(rows)] ==
            IF k = 0 THEN << >>
            ELSE IF k \in P THEN Append(F[k - 1], rows[k]) ELSE F[k - 1]
    IN  F[Len(rows)]

DayIdx(rows, day) == {k \in DOMAIN rows : DayOf(rows[k].TIME) = day}

\* ROW_NUMBER() OVER (PARTITION BY TIME, SENSOR_ID ORDER BY TIME) ... rn = 1:
\* one row of every (TIME, SENSOR_ID) group of the day.  All rows of a group
\* have the same TIME, so the ORDER BY leaves the numbering inside a group
\* to the store: every choice of one row per group is a possible result.
RankOne(rows, day) ==
    {P \in SUBSET DayIdx(rows, day) :
        \A k \in DayIdx(rows, day) :
            Cardinality({p \in P : Key(rows[p]) = Key(rows[k])}) = 1}

\* DELETE FROM <table> WHERE DATE_TRUNC('day', TIME) = day
DeleteDay(rows, day) == RowsAt(rows, (DOMAIN rows) \ DayIdx(rows, day))

\* ------------------------------------------------- the wide-format reader
\* A source is the text of a plain file or of an archive member.  A line is
\* the sequence of the fields its split(",") gives, each field stripped; the
\* field p of data line r is the value <<r, p>> or the empty field.
EmptyField == << >>
SensorTokens == {"S1", "S2"}

\* a data line with n values followed by t empty fields
DataLine(r, n, t) == [p \in 1..(n + t) |-> IF p <= n THEN <<r, p>> ELSE EmptyField]
LineShapes ==
    {sh \in [n : 0..MaxValues, t : 0..MaxTrailing] : sh.n + sh.t >= 1}

\* the texts the reader is given: the three header lines (the first field of
\* each is the placeholder over the TIME column) and the data lines
HeaderLine(fields) == <<EmptyField>> \o fields
NameTokens(n) == [k \in 1..n |-> <<"name", k>>]
UnitTokens(n) == [k \in 1..n |-> <<"unit", k>>]
SeqsUpTo(S, n) == UNION {[1..m -> S] : m \in 0..n}
Sources ==
    {[lines |-> <<HeaderLine(ids), HeaderLine(NameTokens(nn)),
                  HeaderLine(UnitTokens(nu))>>
                \o [r \in 1..Len(shapes) |->
                       DataLine(r, shapes[r].n, shapes[r].t)]] :
        ids \in SeqsUpTo(SensorTokens, MaxSensorCols),
        nn \in 0..MaxSensorCols,
        nu \in 0..MaxSensorCols,
        shapes \in SeqsUpTo(LineShapes, MaxDataLines)}
NoSource == [lines |-> << >>]

Range(seq) == {seq[k] : k \in DOMAIN seq}

\* a data line that keeps its trailing comma
StripTrailingCommaNever(fields) == fields

\* if line.strip().endswith(","): line = line.strip()[:-1] -- the line ends
\* with a comma exactly when its split has a last field that is empty and is
\* not its only field; the cut removes that field, and only that one
StripTrailingComma(fields) ==
    IF Len(fields) >= 2 /\ fields[Len(fields)] = EmptyField
    THEN SubSeq(fields, 1, Len(fields) - 1)
    ELSE fields

\* values = [val.strip() for val in line.split(",")]
Values(line) == StripTrailingComma(line)

\* columns = ["TIME"] + sensor_ids[1:]
Columns(sensor_ids) == <<"TIME">> \o sensor_ids

\* a reader that wants the field count to be the column count
AcceptedExact(values, columns) == Len(values) = Len(columns)

\* len(values) >= len(columns)
Accepted(values, columns) == Len(values) >= Len(columns)

\* row_data = {}; for i, col in enumerate(columns): row_data[col] = values[i]
\* -- a dict: a later assignment to the same column replaces an earlier one
RowData(values, columns) ==
    [c \in Range(columns) |->
        values[CHOOSE p \in DOMAIN columns :
                  /\ columns[p] = c
                  /\ \A q \in DOMAIN columns : columns[q] = c => q <= p]]

\* the rows of the accepted data lines, in line order
DataRowsOf(data_lines, columns) ==
    LET F[k \in 0..Len(data_lines)] ==
            IF k = 0 THEN << >>
            ELSE IF Accepted(Values(data_lines[k]), columns)
                 THEN Append(F[k - 1], RowData(Values(data_lines[k]), columns))
                 ELSE F[k - 1]
    IN  F[Len(data_lines)]

NotRead == [status |-> "none", sensor_ids |-> << >>, sensor_names |-> << >>,
            sensor_units |-> << >>, data |-> << >>]

\* _read_special_csv, and lines 84-145 of process_file for an archive
\* member: rejected (None) with fewer than 4 lines, else the three header
\* arrays without their first field and the frame of the accepted rows
ReadSource(source) ==
    IF Len(source.lines) < 4
    THEN [NotRead EXCEPT !.status = "rejected"]
    ELSE [status |-> "ok",
          sensor_ids |-> Tail(source.lines[1]),
          sensor_names |-> Tail(source.lines[2]),
          sensor_units |-> Tail(source.lines[3]),
          data |-> DataRowsOf(SubSeq(source.lines, 4, Len(source.lines)),
                              Columns(Tail(source.lines[1])))]

\* df.columns of pl.DataFrame(rows): the keys of the rows, none without rows
FrameColumns(rows) == IF rows = << >> THEN {} ELSE DOMAIN rows[1]

\* the metadata of the configuration and the file name
plant == "PLANT"
machine_id == "MACHINE_ID"
data_label == "DATA_LABEL"

\* the records of one sensor: one per row, in row order (lines 585-608)
SensorRecords(rd, idx, file_name) ==
    [r \in DOMAIN rd.data |->
        [TIME |-> rd.data[r]["TIME"],
         VALUE |-> rd.data[r][rd.sensor_ids[idx]],
         PLANT |-> plant, MACHINE_ID |-> machine_id, DATA_LABEL |-> data_label,
         SENSOR_ID |-> rd.sensor_ids[idx],
         SENSOR_NAME |-> rd.sensor_names[idx],
         SENSOR_UNIT |-> rd.sensor_units[idx],
         file_name |-> file_name]]

\* lines 572-590: the sensor has a name and a unit, and its column is there
Emits(rd, idx) ==
    /\ idx <= Len(rd.sensor_names)
    /\ idx <= Len(rd.sensor_units)
    /\ rd.sensor_ids[idx] \in FrameColumns(rd.data)

NotTransformed == [status |-> "none", records |-> << >>]

\* _transform_to_vertical: df.select("TIME") raises when the frame has no
\* TIME column (the third selection, line 557, is not guarded); otherwise
\* the records of the sensors that emit, sensor after sensor
TransformToVertical(rd, file_name) ==
    IF "TIME" \notin FrameColumns(rd.data)
    THEN [status |-> "raised", records |-> << >>]
    ELSE LET F[k \in 0..Len(rd.sensor_ids)] ==
                 IF k = 0 THEN << >>
                 ELSE IF Emits(rd, k)
                      THEN F[k - 1] \o SensorRecords(rd, k, file_name)
                      ELSE F[k - 1]
         IN  [status |-> "ok", records |-> F[Len(rd.sensor_ids)]]

VARIABLES
    content,          \* content of every candidate file (environment)
    processed_files,  \* CsvPreprocessor.processed_files, the ledger in memory
    ledger_file,      \* the ledger file (PROCESSED_MARKER) on disk
    table,            \* the target table of the store
    table_temp,       \* the shadow table <table>_temp of the store
    pc,               \* position in process_all_files_to_db, "idle" between runs
    run,              \* number of runs started
    i,                \* offset of the current batch in csv_files
    j,                \* offset of the current file in the batch
    data,             \* vertical_data of the file in hand
    total_records,
    batch_records,
    dates,            \* compaction: the enumerated days
    d,                \* compaction: index of the day in hand
    ret,              \* value returned by the last run (-1: none yet)
    faults,           \* failures injected so far
    mutations,        \* rewrites of files so far
    \* history of the run, read by the properties only
    events,           \* steps taken on files: <<op, file, batch>>
    outcome,          \* per file: how its processing ended in this run
    prevOutcome,      \* outcome of the previous run
    imported,         \* per file: records imported successfully in this run
    gate,             \* what the last _is_processed call saw and answered
    markedContent,    \* per file: content at its last mark (-1: never)
    dirty,            \* files whose content changed since the last run started
    stale,            \* dirty, as it was when this run started
    tableAtStart,     \* the target table when this run started
    pre,              \* the target table when compaction started
    compacting,       \* 0: no compaction in this run, 1: running, 2: ended
    cfail,            \* a statement of this run's compaction failed
    counted,          \* a final COUNT(*) of this run succeeded
    saved,            \* outcome of the last write of the ledger file
    loaded,           \* what the last load found, "none" once the ledger changed
    startLoad,        \* loaded, as it was when this run started
    ledgerAtStart,    \* the ledger, in memory and on disk, when this run started
    \* one source going through the reader and the transform
    source,           \* the text handed to the reader
    rd,               \* what the reader returned
    vertical          \* what the transform returned

prog == <<content, processed_files, ledger_file, table, table_temp>>
ctl == <<pc, run, i, j, data, total_records, batch_records, dates, d, ret, faults,
         mutations>>
hist == <<events, outcome, prevOutcome, imported, gate, markedContent, dirty,
          stale, tableAtStart, pre, compacting, cfail, counted, saved, loaded,
          startLoad, ledgerAtStart>>
rvars == <<source, rd, vertical>>
vars == <<prog, ctl, hist, rvars>>

NoGate == [file |-> 0, hashOK |-> TRUE, result |-> FALSE, entry |-> FALSE,
           stored |-> EmptyHash, content |-> 0, marked |-> -1]

InitProgram ==
    /\ content = [f \in Files |-> 2]
    /\ processed_files = << >>
    /\ ledger_file = NoLedgerFile
    /\ table = NoTable
    /\ table_temp = NoTable
    /\ pc = "idle"
    /\ run = 0
    /\ i = 0
    /\ j = 0
    /\ data = << >>
    /\ total_records = 0
    /\ batch_records = 0
    /\ dates = << >>
    /\ d = 0
    /\ ret = -1
    /\ faults = 0
    /\ mutations = 0
    /\ events = << >>
    /\ outcome = [f \in Files |-> "none"]
    /\ prevOutcome = [f \in Files |-> "none"]
    /\ imported = [f \in Files |-> 0]
    /\ gate = NoGate
    /\ markedContent = [f \in Files |-> -1]
    /\ dirty = {}
    /\ stale = {}
    /\ tableAtStart = NoTable
    /\ pre = NoTable
    /\ compacting = 0
    /\ cfail = FALSE
    /\ counted = FALSE
    /\ saved = "none"
    /\ loaded = "missing"
    /\ startLoad = "none"
    /\ ledgerAtStart = [memory |-> << >>, disk |-> NoLedgerFile]

Init ==
    /\ InitProgram
    /\ source = NoSource
    /\ rd = NotRead
    /\ vertical = NotTransformed

\* A step that may fail: ok is its outcome, n the failures it injects
CanFail(n) == faults + n <= MaxFaults
Cost(ok) == IF ok THEN 0 ELSE 1

\* the file in hand and its batch
cur == csv_files[i + j + 1]
\* a slice one file too long
batch_overlapping == SubSeq(csv_files, i + 1, Min(i + batch_size + 1, Len(csv_files)))
batch == SubSeq(csv_files, i + 1, Min(i + batch_size, Len(csv_files)))
current_batch == (i \div batch_size) + 1

Log(op) == Append(events, <<op, cur, current_batch>>)

\* ------------------------------------------------------- between two runs
\* The environment rewrites a file.
MutateFile(f, c) ==
    /\ pc = "idle"
    /\ run < MaxRuns
    /\ mutations < MaxMutations
    /\ c # content[f]
    /\ content' = [content EXCEPT ![f] = c]
    /\ mutations' = mutations + 1
    /\ dirty' = dirty \cup {f}
    /\ UNCHANGED <<processed_files, ledger_file, table, table_temp, pc, run, i, j,
                   data, total_records, batch_records, dates, d, ret, faults>>
    /\ UNCHANGED <<events, outcome, prevOutcome, imported, gate, markedContent,
                   stale, tableAtStart, pre, compacting, cfail, counted, saved,
                   loaded, startLoad, ledgerAtStart>>
    /\ UNCHANGED rvars

\* CsvPreprocessor.__init__ of a new process: _load_processed_files
LoadProcessedFiles ==
    /\ pc = "idle"
    /\ run < MaxRuns
    /\ \E ok \in BOOLEAN :
        /\ ledger_file.state = "missing" => ok
        /\ CanFail(Cost(ok))
        /\ faults' = faults + Cost(ok)
        /\ processed_files' = LoadedLedger(ledger_file, ok)
        /\ loaded' = IF ok THEN ledger_file.state ELSE "unreadable"
    /\ UNCHANGED <<content, ledger_file, table, table_temp, pc, run, i, j, data,
                   total_records, batch_records, dates, d, ret, mutations>>
    /\ UNCHANGED <<events, outcome, prevOutcome, imported, gate, markedContent,
                   dirty, stale, tableAtStart, pre, compacting, cfail, counted,
                   saved, startLoad, ledgerAtStart>>
    /\ UNCHANGED rvars

\* process_all_files_to_db is called
StartRun ==
    /\ pc = "idle"
    /\ run < MaxRuns
    /\ run' = run + 1
    /\ pc' = "batch"
    /\ i' = 0
    /\ j' = 0
    /\ total_records' = 0
    /\ batch_records' = 0
    /\ ret' = -1
    /\ events' = << >>
    /\ prevOutcome' = outcome
    /\ outcome' = [f \in Files |-> "none"]
    /\ imported' = [f \in Files |-> 0]
    /\ stale' = dirty
    /\ dirty' = {}
    /\ tableAtStart' = table
    /\ pre' = NoTable
    /\ compacting' = 0
    /\ cfail' = FALSE
    /\ counted' = FALSE
    /\ startLoad' = loaded
    /\ ledgerAtStart' = [memory |-> processed_files, disk |-> ledger_file]
    /\ UNCHANGED <<prog, data, dates, d, faults, mutations, gate, markedContent,
                   saved, loaded>>
    /\ UNCHANGED rvars

\* ------------------------------------------------------------ the batches
\* for i in range(0, len(csv_files), batch_size)
BatchLoop ==
    /\ pc = "batch"
    /\ IF i < Len(csv_files)
       THEN /\ pc' = "file"
            /\ j' = 0
            /\ batch_records' = 0
       ELSE /\ pc' = "after"
            /\ UNCHANGED <<j, batch_records>>
    /\ UNCHANGED <<prog, run, i, data, total_records, dates, d, ret, mutations, faults, hist>>
    /\ UNCHANGED rvars

\* for file_info in batch; after the last file the batch is logged and the
\* collector is run
FileLoop ==
    /\ pc = "file"
    /\ IF j < Len(batch)
       THEN /\ pc' = "gate"
            /\ UNCHANGED i
       ELSE /\ pc' = "batch"
            /\ i' = i + batch_size
    /\ UNCHANGED <<prog, run, j, data, total_records, batch_records, dates, d,
                   ret, mutations, faults, hist>>
    /\ UNCHANGED rvars

\* a failure that ends the loops
AfterNoneAbort == [pc |-> "after", j |-> j]

\* what the loop does once process_file has returned None for the file in
\* hand: it goes on with the next file of the batch
AfterNone == [pc |-> "file", j |-> j + 1]

\* process_file, lines 70-73: the ledger gate
Gate ==
    /\ pc = "gate"
    /\ \E ok \in BOOLEAN :
        LET f == cur
            h == CalculateFileHash(content[f], ok)
            res == IsProcessed(processed_files, f, h)
        IN  /\ CanFail(Cost(ok))
            /\ faults' = faults + Cost(ok)
            /\ gate' = [file |-> f, hashOK |-> ok, result |-> res,
                        entry |-> f \in DOMAIN processed_files,
                        stored |-> IF f \in DOMAIN processed_files
                                   THEN processed_files[f].hash ELSE EmptyHash,
                        content |-> content[f],
                        marked |-> markedContent[f]]
            /\ events' = Log("gate")
            /\ IF res
               THEN /\ outcome' = [outcome EXCEPT ![f] = "skipped"]
                    /\ pc' = AfterNone.pc
                    /\ j' = AfterNone.j
               ELSE /\ pc' = "read"
                    /\ UNCHANGED <<outcome, j>>
    /\ UNCHANGED <<prog, run, i, data, total_records, batch_records, dates, d, ret, mutations>>
    /\ UNCHANGED <<prevOutcome, imported, markedContent, dirty, stale,
                   tableAtStart, pre, compacting, cfail, counted,
                   saved, loaded, startLoad, ledgerAtStart>>
    /\ UNCHANGED rvars

\* process_file, lines 75-151: the source is read
Read ==
    /\ pc = "read"
    /\ \E ok \in BOOLEAN :
        /\ CanFail(Cost(ok))
        /\ faults' = faults + Cost(ok)
        /\ events' = Log("read")
        /\ IF ReadSpecialCsv(content[cur], ok)
           THEN /\ pc' = "transform"
                /\ UNCHANGED <<outcome, j>>
           ELSE /\ outcome' = [outcome EXCEPT ![cur] = "failed_read"]
                /\ pc' = AfterNone.pc
                /\ j' = AfterNone.j
    /\ UNCHANGED <<prog, run, i, data, total_records, batch_records, dates, d, ret, mutations>>
    /\ UNCHANGED <<prevOutcome, imported, gate, markedContent, dirty, stale,
                   tableAtStart, pre, compacting, cfail, counted,
                   saved, loaded, startLoad, ledgerAtStart>>
    /\ UNCHANGED rvars

\* process_file, lines 153-158 and 174-176: the transform; the side output
\* written by _save_processed_data never fails the file
Transform ==
    /\ pc = "transform"
    /\ events' = Log("transform")
    /\ IF TransformFails(content[cur])
       THEN /\ outcome' = [outcome EXCEPT ![cur] = "failed_transform"]
            /\ pc' = AfterNone.pc
            /\ j' = AfterNone.j
            /\ UNCHANGED data
       ELSE /\ data' = LongRecords(cur, content[cur])
            /\ pc' = "mark"
            /\ UNCHANGED <<outcome, j>>
    /\ UNCHANGED <<prog, run, i, total_records, batch_records, dates, d, ret, mutations, faults>>
    /\ UNCHANGED <<prevOutcome, imported, gate, markedContent, dirty, stale,
                   tableAtStart, pre, compacting, cfail, counted,
                   saved, loaded, startLoad, ledgerAtStart>>
    /\ UNCHANGED rvars

\* process_file, line 161: _mark_as_processed, then the result is returned
Mark ==
    /\ pc = "mark"
    /\ \E hok \in BOOLEAN, out \in SaveOutcomes :
        LET h == CalculateFileHash(content[cur], hok)
            ledger == MarkAsProcessed(processed_files, cur, h, run)
        IN  /\ CanFail(Cost(hok) + Cost(out = "written"))
            /\ faults' = faults + Cost(hok) + Cost(out = "written")
            /\ processed_files' = ledger
            /\ ledger_file' = SaveProcessedFiles(ledger_file, ledger, out)
            /\ saved' = out
    /\ loaded' = "none"
    /\ markedContent' = [markedContent EXCEPT ![cur] = content[cur]]
    /\ events' = Log("mark")
    /\ pc' = "import"
    /\ UNCHANGED <<content, table, table_temp, run, i, j, data, total_records,
                   batch_records, dates, d, ret, mutations>>
    /\ UNCHANGED <<outcome, prevOutcome, imported, gate, dirty, stale,
                   tableAtStart, pre, compacting, cfail, counted, startLoad,
                   ledgerAtStart>>
    /\ UNCHANGED rvars

\* lines 394-402: the result of process_file is imported and counted
Import ==
    /\ pc = "import"
    /\ \E res \in ImportOutcomes(table, data) :
            /\ CanFail(res.cost)
            /\ faults' = faults + res.cost
            /\ table' = res.table
            /\ IF res.ok
               THEN /\ batch_records' = batch_records + Len(data)
                    /\ total_records' = total_records + Len(data)
                    /\ imported' = [imported EXCEPT ![cur] = Len(data)]
                    /\ outcome' = [outcome EXCEPT ![cur] = "loaded"]
               ELSE /\ outcome' = [outcome EXCEPT ![cur] = "failed_import"]
                    /\ UNCHANGED <<batch_records, total_records, imported>>
    /\ events' = Log("import")
    /\ data' = << >>
    /\ pc' = "file"
    /\ j' = j + 1
    /\ UNCHANGED <<content, processed_files, ledger_file, table_temp, run, i,
                   dates, d, ret, mutations>>
    /\ UNCHANGED <<prevOutcome, gate, markedContent, dirty, stale, tableAtStart,
                   pre, compacting, cfail, counted,
                   saved, loaded, startLoad, ledgerAtStart>>
    /\ UNCHANGED rvars

\* a pass that is entered whatever was loaded
NeedsCompactionAlways(total) == TRUE

\* lines 413 and 418: the pass is entered when the run loaded records
NeedsCompaction(total) == total > 0

\* a return of nothing
EarlyReturnNone(total) == -1

\* lines 413-415: what a run that loaded no record returns
EarlyReturn(total) == 0

\* lines 413-415 (compaction follows in the next section)
AfterBatches ==
    /\ pc = "after"
    /\ ~NeedsCompaction(total_records)
    /\ ret' = EarlyReturn(total_records)
    /\ pc' = "idle"
    /\ UNCHANGED <<prog, run, i, j, data, total_records, batch_records, dates, d,
                   faults, mutations, hist>>
    /\ UNCHANGED rvars

\* ------------------------------------------------- duplicate elimination
\* execute_query / get_table_info return None when the statement raises:
\* the caller goes on with the next statement.  A statement fails when the
\* store fails (ok = FALSE) or when a table it needs is missing or in the way.
Stmt(ok, possible) == ok /\ possible
Charge(ok, possible) ==
    /\ (~possible) => ok
    /\ CanFail(Cost(ok))
    /\ faults' = faults + Cost(ok)

\* lines 418-426: CREATE TABLE <table>_temp AS SELECT * FROM <table> WHERE 1=0
CreateTemp ==
    /\ pc = "after"
    /\ NeedsCompaction(total_records)
    /\ \E ok \in BOOLEAN :
        LET possible == table.exists /\ ~table_temp.exists
        IN  /\ Charge(ok, possible)
            /\ table_temp' = IF Stmt(ok, possible)
                             THEN [exists |-> TRUE, rows |-> << >>,
                                   time_type |-> table.time_type]
                             ELSE table_temp
            /\ cfail' = ~Stmt(ok, possible)
    /\ pre' = table
    /\ compacting' = 1
    /\ pc' = "c_dates"
    /\ UNCHANGED <<content, processed_files, ledger_file, table, run, i, j, data,
                   total_records, batch_records, dates, d, ret, mutations>>
    /\ UNCHANGED <<events, outcome, prevOutcome, imported, gate, markedContent,
                   dirty, stale, tableAtStart, counted,
                   saved, loaded, startLoad, ledgerAtStart>>
    /\ UNCHANGED rvars

\* DATE_TRUNC('day', TIME) needs a TIME column of timestamps
HasDays(tbl) == tbl.exists /\ tbl.time_type = "TIMESTAMP"

\* lines 428-435 and 500-503: the days are enumerated; without a result the
\* pass is skipped
DateQuery ==
    /\ pc = "c_dates"
    /\ \E ok \in BOOLEAN :
        /\ Charge(ok, HasDays(table))
        /\ IF Stmt(ok, HasDays(table))
           THEN /\ dates' = SortedSeq(DaySet(table.rows))
                /\ d' = 1
                /\ pc' = "c_day"
                /\ UNCHANGED cfail
           ELSE /\ cfail' = TRUE
                /\ pc' = "c_count2"
                /\ UNCHANGED <<dates, d>>
    /\ UNCHANGED <<prog, run, i, j, data, total_records, batch_records, ret, mutations>>
    /\ UNCHANGED <<events, outcome, prevOutcome, imported, gate, markedContent,
                   dirty, stale, tableAtStart, pre, compacting, counted,
                   saved, loaded, startLoad, ledgerAtStart>>
    /\ UNCHANGED rvars

\* lines 437-452: for each day, get_table_info(<table>_temp); without the
\* columns the day is passed over
DayLoop ==
    /\ pc = "c_day"
    /\ IF d <= Len(dates)
       THEN \E ok \in BOOLEAN :
            /\ Charge(ok, table_temp.exists)
            /\ IF Stmt(ok, table_temp.exists)
               THEN /\ pc' = "c_insert"
                    /\ UNCHANGED <<d, cfail>>
               ELSE /\ cfail' = TRUE
                    /\ d' = d + 1
                    /\ pc' = "c_day"
       ELSE /\ pc' = "c_drop"
            /\ UNCHANGED <<d, cfail, faults>>
    /\ UNCHANGED <<prog, run, i, j, data, total_records, batch_records, dates, ret, mutations>>
    /\ UNCHANGED <<events, outcome, prevOutcome, imported, gate, markedContent,
                   dirty, stale, tableAtStart, pre, compacting, counted,
                   saved, loaded, startLoad, ledgerAtStart>>
    /\ UNCHANGED rvars

\* lines 460-468: the day's rows of rank 1 are inserted into the shadow table
InsertDay ==
    /\ pc = "c_insert"
    /\ \E ok \in BOOLEAN :
        LET possible == table.exists /\ table_temp.exists
        IN  /\ Charge(ok, possible)
            /\ IF Stmt(ok, possible)
               THEN /\ \E P \in RankOne(table.rows, dates[d]) :
                        table_temp' = [table_temp EXCEPT
                            !.rows = @ \o RowsAt(table.rows, P)]
                    /\ UNCHANGED cfail
               ELSE /\ cfail' = TRUE
                    /\ UNCHANGED table_temp
    /\ pc' = "c_delete"
    /\ UNCHANGED <<content, processed_files, ledger_file, table, run, i, j, data,
                   total_records, batch_records, dates, d, ret, mutations>>
    /\ UNCHANGED <<events, outcome, prevOutcome, imported, gate, markedContent,
                   dirty, stale, tableAtStart, pre, compacting, counted,
                   saved, loaded, startLoad, ledgerAtStart>>
    /\ UNCHANGED rvars

\* lines 470-481: the day's rows are deleted from the target table, then
\* PRAGMA force_checkpoint, which changes no row
DeleteDayRows ==
    /\ pc = "c_delete"
    /\ \E ok \in BOOLEAN :
        /\ Charge(ok, table.exists)
        /\ IF Stmt(ok, table.exists)
           THEN /\ table' = [table EXCEPT !.rows = DeleteDay(@, dates[d])]
                /\ UNCHANGED cfail
           ELSE /\ cfail' = TRUE
                /\ UNCHANGED table
    /\ d' = d + 1
    /\ pc' = "c_day"
    /\ UNCHANGED <<content, processed_files, ledger_file, table_temp, run, i, j,
                   data, total_records, batch_records, dates, ret, mutations>>
    /\ UNCHANGED <<events, outcome, prevOutcome, imported, gate, markedContent,
                   dirty, stale, tableAtStart, pre, compacting, counted,
                   saved, loaded, startLoad, ledgerAtStart>>
    /\ UNCHANGED rvars

\* line 484: DROP TABLE <table>
DropTable ==
    /\ pc = "c_drop"
    /\ \E ok \in BOOLEAN :
        /\ Charge(ok, table.exists)
        /\ IF Stmt(ok, table.exists)
           THEN /\ table' = NoTable
                /\ UNCHANGED cfail
           ELSE /\ cfail' = TRUE
                /\ UNCHANGED table
    /\ pc' = "c_rename"
    /\ UNCHANGED <<content, processed_files, ledger_file, table_temp, run, i, j,
                   data, total_records, batch_records, dates, d, ret, mutations>>
    /\ UNCHANGED <<events, outcome, prevOutcome, imported, gate, markedContent,
                   dirty, stale, tableAtStart, pre, compacting, counted,
                   saved, loaded, startLoad, ledgerAtStart>>
    /\ UNCHANGED rvars

\* lines 485-487: ALTER TABLE <table>_temp RENAME TO <table>
RenameTemp ==
    /\ pc = "c_rename"
    /\ \E ok \in BOOLEAN :
        LET possible == table_temp.exists /\ ~table.exists
        IN  /\ Charge(ok, possible)
            /\ IF Stmt(ok, possible)
               THEN /\ table' = table_temp
                    /\ table_temp' = NoTable
                    /\ UNCHANGED cfail
               ELSE /\ cfail' = TRUE
                    /\ UNCHANGED <<table, table_temp>>
    /\ pc' = "c_count1"
    /\ UNCHANGED <<content, processed_files, ledger_file, run, i, j, data,
                   total_records, batch_records, dates, d, ret, mutations>>
    /\ UNCHANGED <<events, outcome, prevOutcome, imported, gate, markedContent,
                   dirty, stale, tableAtStart, pre, compacting, counted,
                   saved, loaded, startLoad, ledgerAtStart>>
    /\ UNCHANGED rvars

\* a count that is only logged
AfterCountKept(total, succeeded, count) == total

\* the value total_records takes after SELECT COUNT(*) FROM <table> (lines
\* 490-499 and 509-516): the count when the query gave a result
AfterCount(total, succeeded, count) == IF succeeded THEN count ELSE total

\* lines 489-499: the count inside the pass
CountInside ==
    /\ pc = "c_count1"
    /\ \E ok \in BOOLEAN :
        /\ Charge(ok, table.exists)
        /\ total_records' =
              AfterCount(total_records, Stmt(ok, table.exists), Len(table.rows))
        /\ counted' = (counted \/ Stmt(ok, table.exists))
    /\ pc' = "c_count2"
    /\ UNCHANGED <<prog, run, i, j, data, batch_records, dates, d, ret, mutations>>
    /\ UNCHANGED <<events, outcome, prevOutcome, imported, gate, markedContent,
                   dirty, stale, tableAtStart, pre, compacting, cfail,
                   saved, loaded, startLoad, ledgerAtStart>>
    /\ UNCHANGED rvars

\* lines 508-521: the count after the pass, and the return
CountAndReturn ==
    /\ pc = "c_count2"
    /\ \E ok \in BOOLEAN :
        /\ Charge(ok, table.exists)
        /\ total_records' =
              AfterCount(total_records, Stmt(ok, table.exists), Len(table.rows))
        /\ counted' = (counted \/ Stmt(ok, table.exists))
    /\ ret' = total_records'
    /\ compacting' = 2
    /\ pc' = "idle"
    /\ UNCHANGED <<prog, run, i, j, data, batch_records, dates, d, mutations>>
    /\ UNCHANGED <<events, outcome, prevOutcome, imported, gate, markedContent,
                   dirty, stale, tableAtStart, pre, cfail,
                   saved, loaded, startLoad, ledgerAtStart>>
    /\ UNCHANGED rvars

Next ==
    \/ \E f \in Files, c \in Contents : MutateFile(f, c)
    \/ LoadProcessedFiles
    \/ StartRun
    \/ BatchLoop
    \/ FileLoop
    \/ Gate
    \/ Read
    \/ Transform
    \/ Mark
    \/ Import
    \/ AfterBatches
    \/ CreateTemp
    \/ DateQuery
    \/ DayLoop
    \/ InsertDay
    \/ DeleteDayRows
    \/ DropTable
    \/ RenameTemp
    \/ CountInside
    \/ CountAndReturn

Spec == Init /\ [][Next]_vars

\* the runs in which no file access and no store statement fails
NextNoFault ==
    \/ (\E f \in Files, c \in Contents : MutateFile(f, c)) /\ faults' = 0
    \/ LoadProcessedFiles /\ faults' = 0
    \/ StartRun /\ faults' = 0
    \/ BatchLoop /\ faults' = 0
    \/ FileLoop /\ faults' = 0
    \/ Gate /\ faults' = 0
    \/ Read /\ faults' = 0
    \/ Transform /\ faults' = 0
    \/ Mark /\ faults' = 0
    \/ Import /\ faults' = 0
    \/ AfterBatches /\ faults' = 0
    \/ CreateTemp /\ faults' = 0
    \/ DateQuery /\ faults' = 0
    \/ DayLoop /\ faults' = 0
    \/ InsertDay /\ faults' = 0
    \/ DeleteDayRows /\ faults' = 0
    \/ DropTable /\ faults' = 0
    \/ RenameTemp /\ faults' = 0
    \/ CountInside /\ faults' = 0
    \/ CountAndReturn /\ faults' = 0
SpecNoFault == Init /\ [][NextNoFault]_vars

\* ------------------------------------------ one source through the reader
\* process_file on one source, from the reader on: the reader, then the
\* transform when the reader returned a frame
file_name == "file.csv"

InitReader ==
    /\ InitProgram
    /\ source \in Sources
    /\ rd = NotRead
    /\ vertical = NotTransformed

\* process_file, lines 75-151
ReadWide ==
    /\ source # NoSource
    /\ rd.status = "none"
    /\ rd' = ReadSource(source)
    /\ UNCHANGED <<prog, ctl, hist, source, vertical>>

\* process_file, lines 153-154 and 174-176
TransformWide ==
    /\ rd.status = "ok"
    /\ vertical.status = "none"
    /\ vertical' = TransformToVertical(rd, file_name)
    /\ UNCHANGED <<prog, ctl, hist, source, rd>>

NextReader ==
    \/ ReadWide
    \/ TransformWide

SpecReader == InitReader /\ [][NextReader]_vars

\* ================================================================ properties
RunEnded == pc = "idle" /\ run >= 1
Failed == {"failed_read", "failed_transform", "failed_import"}

\* the records imported successfully in this run, summed over the candidates
SumImported ==
    LET S[k \in 0..NumFiles] == IF k = 0 THEN 0 ELSE S[k - 1] + imported[k]
    IN  S[NumFiles]

\* the files the log holds a step of the given kind for
FilesWith(op) == {events[a][2] : a \in {b \in DOMAIN events : events[b][1] = op}}

\* C1: a file whose store-import failed has, at the end of the run, no ledger
\* entry with its current hash (it is marked only after a successful import).
C1_MarkedOnlyAfterImport ==
    RunEnded =>
        \A f \in Files :
            outcome[f] = "failed_import" =>
                ~IsProcessed(processed_files, f, MD5(content[f]))

\* C2 (as stated): a second run over unchanged files finds every file already
\* processed, imports zero records and adds no row to the target table.
C2_SecondRunAllProcessed ==
    (RunEnded /\ run >= 2 /\ stale = {}) =>
        /\ \A f \in Files : outcome[f] = "skipped"
        /\ \A f \in Files : imported[f] = 0
        /\ table = tableAtStart

\* no import of this run or of the run before it returned False
NoImportFailed ==
    \A f \in Files :
        prevOutcome[f] # "failed_import" /\ outcome[f] # "failed_import"

\* C2 (amended): a second run over unchanged files, with no file access and
\* no store statement failing in either run, skips every file the earlier
\* run loaded or skipped, attempts again every file the earlier run failed
\* (it fails the same way), imports zero records, returns 0 and leaves the
\* target table as it was.
C2_Idempotent ==
    (RunEnded /\ run >= 2 /\ stale = {} /\ faults = 0 /\ NoImportFailed) =>
        /\ \A f \in Files :
            /\ prevOutcome[f] \in {"loaded", "skipped"} => outcome[f] = "skipped"
            /\ prevOutcome[f] \in Failed =>
                  (outcome[f] = prevOutcome[f] /\ f \in FilesWith("read"))
            /\ imported[f] = 0
        /\ ret = 0
        /\ table = tableAtStart

C2_Witness ==
    /\ RunEnded /\ run >= 2 /\ stale = {} /\ faults = 0 /\ NoImportFailed
    /\ \E f \in Files : prevOutcome[f] = "loaded" /\ outcome[f] = "skipped"
    /\ \E f \in Files : prevOutcome[f] = "failed_read" /\ outcome[f] = "failed_read"

\* C3: a file that was marked earlier and whose content differs from the
\* content it was marked with is not skipped: _is_processed answers false.
C3_ChangedFileNotSkipped ==
    (gate.file # 0 /\ gate.marked # -1 /\ gate.marked # gate.content) =>
        ~gate.result

\* C4: when a statement of the duplicate-elimination pass failed, the target
\* table still exists, holds every (TIME, SENSOR_ID) key it held when the
\* pass started, and the run returns the count it had before the pass (the
\* records loaded by the run, or the rows the table held then).
C4_CompactionFailureHarmless ==
    (RunEnded /\ compacting = 2 /\ cfail) =>
        /\ table.exists
        /\ Keys(pre.rows) \subseteq Keys(table.rows)
        /\ ret \in {SumImported, Len(pre.rows)}

\* the first row of the given key, in insertion order
FirstOf(rows, key) ==
    rows[CHOOSE k \in DOMAIN rows :
            /\ Key(rows[k]) = key
            /\ \A m \in DOMAIN rows : Key(rows[m]) = key => k <= m]

\* the rows of the given key do not all carry the same VALUE
ValuesDiffer(rows, key) ==
    \E a, b \in DOMAIN rows :
        Key(rows[a]) = key /\ Key(rows[b]) = key /\ rows[a].VALUE # rows[b].VALUE

\* C5: after a pass in which every statement succeeded, the target table
\* holds exactly one row for every key it held before, and where the rows of
\* a key differed in VALUE that row is the one that was inserted first.
C5_DedupFirstWins ==
    (RunEnded /\ compacting = 2 /\ ~cfail) =>
        /\ table.exists
        /\ Keys(table.rows) = Keys(pre.rows)
        /\ \A k \in DOMAIN table.rows :
            /\ \A m \in DOMAIN table.rows :
                  Key(table.rows[m]) = Key(table.rows[k]) => m = k
            /\ ValuesDiffer(pre.rows, Key(table.rows[k])) =>
                  table.rows[k] = FirstOf(pre.rows, Key(table.rows[k]))

\* C6: no failure of a file ends the batch or the run: when the run has
\* ended, every candidate went through the ledger gate, and every file that
\* was not skipped was read, whatever happened to the files before it.
C6_FailureIsolation ==
    RunEnded =>
        /\ FilesWith("gate") = Files
        /\ \A f \in Files : outcome[f] # "none"
        /\ \A f \in Files : outcome[f] # "skipped" => f \in FilesWith("read")

C6_Witness ==
    /\ RunEnded
    /\ outcome[1] \in Failed
    /\ \A f \in Files : f > 1 => outcome[f] = "loaded"

\* rank of a step inside the processing of one file
OpRank(op) ==
    CASE op = "gate" -> 1
      [] op = "read" -> 2
      [] op = "transform" -> 3
      [] op = "mark" -> 4
      [] op = "import" -> 5

\* size of batch b of the partition of the candidate list
BatchSizeOf(b) == Min(batch_size, NumFiles - (b - 1) * batch_size)
NumBatches == (NumFiles + batch_size - 1) \div batch_size

\* C7: the steps on files follow the input order, the steps of one file are
\* in the order gate, read, transform, mark, import and are over before the
\* next file starts, no file is left out, file k belongs to batch
\* ((k - 1) div batch_size) + 1, so that every batch holds batch_size
\* consecutive files and the last one the rest.
C7_BatchOrder ==
    /\ \A a \in DOMAIN events :
        /\ events[a][3] = ((events[a][2] - 1) \div batch_size) + 1
        /\ a = 1 => (events[a][2] = 1 /\ events[a][1] = "gate")
        /\ a > 1 =>
            \/ /\ events[a][2] = events[a - 1][2]
               /\ OpRank(events[a][1]) = OpRank(events[a - 1][1]) + 1
            \/ /\ events[a][2] = events[a - 1][2] + 1
               /\ events[a][1] = "gate"
    /\ RunEnded =>
        \A b \in 1..NumBatches :
            Cardinality({f \in FilesWith("gate") :
                ((f - 1) \div batch_size) + 1 = b}) = BatchSizeOf(b)

C7_Witness ==
    /\ RunEnded
    /\ NumBatches >= 2
    /\ BatchSizeOf(NumBatches) < batch_size
    /\ \E a \in DOMAIN events : events[a][3] = NumBatches /\ events[a][1] = "import"

\* C8 (as stated): the run returns the sum of the records imported
\* successfully for the files of this run.
C8_ReturnsSum == RunEnded => ret = SumImported

\* C8 (amended): total_records accumulates the records imported successfully
\* for the files of this run; the run returns this sum when it is 0 or when
\* no final COUNT(*) gave a result, and otherwise the number of rows the
\* target table holds after the duplicate-elimination pass.
C8_ReturnValue ==
    /\ pc \in {"batch", "file", "gate", "read", "transform", "mark", "import", "after"}
          => total_records = SumImported
    /\ RunEnded =>
          ret = IF SumImported = 0 THEN 0
                ELSE IF counted THEN Len(table.rows)
                ELSE SumImported

C8_Witness ==
    /\ RunEnded
    /\ counted
    /\ SumImported > 0
    /\ ret # SumImported

\* C9: _is_processed answers true exactly when the ledger has an entry for
\* the file and the stored hash is the digest of the file's current content.
C9_IsProcessedIff ==
    gate.file # 0 =>
        (gate.result <=>
            (gate.entry /\ gate.hashOK /\ gate.stored = MD5(gate.content)))

\* C10: a file whose fingerprint cannot be computed is not processed:
\* _is_processed answers false whatever the ledger holds.
C10_UnhashableNotProcessed ==
    (gate.file # 0 /\ ~gate.hashOK) => ~gate.result

Terminal == {"skipped", "failed_read", "failed_transform", "failed_import", "loaded"}

\* C11: when a run has ended every candidate is in one terminal state, and a
\* file the previous run left in a failed state is attempted again by this
\* run: it passes the ledger gate and is read.
C11_FailedIsRetried ==
    /\ RunEnded => \A f \in Files : outcome[f] \in Terminal
    /\ (RunEnded /\ run >= 2) =>
          \A f \in Files : prevOutcome[f] \in Failed => f \in FilesWith("read")

CompactionPcs == {"c_dates", "c_day", "c_insert", "c_delete", "c_drop", "c_rename",
                  "c_count1", "c_count2"}

C13_LedgerPersistence ==
    /\ []((pc = "import" /\ saved = "written") =>
            /\ ledger_file.state = "ok"
            /\ ledger_file.doc = JsonDump(processed_files)
            /\ JsonLoad(ledger_file.doc) = processed_files)
    /\ [](pc # "idle" =>
            \A f \in FilesWith("mark") :
                /\ f \in DOMAIN processed_files
                /\ processed_files[f].timestamp = run
                /\ \/ IsProcessed(processed_files, f, MD5(content[f]))
                   \/ IsProcessed(processed_files, f, EmptyHash))
    /\ [][pc = "mark" =>
            /\ DOMAIN processed_files' = DOMAIN processed_files \cup {cur}
            /\ \A g \in DOMAIN processed_files \ {cur} :
                  processed_files'[g] = processed_files[g]]_vars

C13_Witness ==
    /\ pc = "import"
    /\ saved = "written"
    /\ Cardinality(DOMAIN processed_files) >= 2
    /\ \E f \in DOMAIN processed_files : processed_files[f].timestamp < run

Unloadable == {"missing", "corrupt", "unreadable"}

\* C14: a load that finds the ledger file missing, unreadable or not
\* parsable gives the empty ledger; the run that starts with it skips no
\* candidate: every file passes the gate, is read and ends loaded or failed.
C14_LoadNeverFails ==
    /\ loaded \in Unloadable => processed_files = << >>
    /\ (run >= 1 /\ startLoad \in Unloadable) =>
          /\ \A f \in Files : outcome[f] # "skipped"
          /\ RunEnded =>
                \A f \in Files :
                    /\ f \in FilesWith("read")
                    /\ outcome[f] \in Terminal \ {"skipped"}

C14_Witness ==
    /\ RunEnded
    /\ run >= 2
    /\ startLoad = "corrupt"
    /\ \E f \in Files : prevOutcome[f] = "loaded" /\ outcome[f] = "loaded"

\* C15: a source with fewer than 4 lines that reaches the reader is rejected
\* there: the step of the reader leaves the target table and the ledger as
\* they were and goes on with the next file; the file ends failed at read,
\* is neither transformed, marked nor imported, no record of it is counted
\* and the ledger gets no entry of this run for it.
C15_TooFewLinesRejected ==
    /\ [][(pc = "read" /\ NumLines(content[cur]) < 4) =>
            /\ outcome'[cur] = "failed_read"
            /\ pc' = "file"
            /\ table' = table
            /\ processed_files' = processed_files
            /\ ledger_file' = ledger_file
            /\ total_records' = total_records]_vars
    /\ [](\A f \in Files :
            (run >= 1 /\ f \notin dirty /\ NumLines(content[f]) < 4
                /\ f \in FilesWith("read")) =>
                /\ outcome[f] = "failed_read"
                /\ f \notin FilesWith("transform") \cup FilesWith("mark")
                              \cup FilesWith("import")
                /\ imported[f] = 0
                /\ f \in DOMAIN processed_files =>
                      processed_files[f].timestamp # run)

C15_Witness ==
    /\ RunEnded
    /\ \E f \in Files \ dirty :
        /\ NumLines(content[f]) < 4
        /\ outcome[f] = "failed_read"
        /\ f \in DOMAIN processed_files
        /\ \E k \in DOMAIN table.rows : table.rows[k].file_name = f

\* ---- the source in hand, as the text states it
DeclaredSensors == Len(source.lines[1]) - 1
DeclaredNames == Len(source.lines[2]) - 1
DeclaredUnits == Len(source.lines[3]) - 1
DataLines == SubSeq(source.lines, 4, Len(source.lines))
\* the number of fields of a line once one trailing comma is taken off
FieldCount(line) ==
    IF Len(line) >= 2 /\ line[Len(line)] = EmptyField
    THEN Len(line) - 1 ELSE Len(line)
Transformed == vertical.status # "none"

\* every sensor has a name and a unit, every data line has its S + 1 fields
FullSource ==
    /\ Len(source.lines) >= 3
    /\ DeclaredNames >= DeclaredSensors
    /\ DeclaredUnits >= DeclaredSensors
    /\ \A r \in DOMAIN DataLines : FieldCount(DataLines[r]) >= DeclaredSensors + 1

\* C16: a source with S sensors, all with a name and a unit, and R data
\* lines of at least S + 1 fields each gives exactly R x S records, also
\* when lines carry more fields; the VALUE of every record is one of the
\* first S fields after TIME of a data line.
C16_Cardinality ==
    (Transformed /\ FullSource) =>
        /\ vertical.status = "ok"
        /\ Len(vertical.records) = Len(DataLines) * DeclaredSensors
        /\ \A k \in DOMAIN vertical.records :
              \E r \in DOMAIN DataLines, p \in 2..(DeclaredSensors + 1) :
                  vertical.records[k].VALUE = DataLines[r][p]

C16_Witness ==
    /\ Transformed
    /\ FullSource
    /\ DeclaredSensors = 2
    /\ Len(DataLines) = 2
    /\ \E r \in DOMAIN DataLines : Len(DataLines[r]) = DeclaredSensors + 3
    /\ Len(vertical.records) = 4

\* the data lines the reader accepts, and the sensors that have a name and
\* a unit
AcceptedLines ==
    {r \in DOMAIN DataLines : FieldCount(DataLines[r]) >= DeclaredSensors + 1}
NamedSensors ==
    {n \in 1..DeclaredSensors : n <= DeclaredNames /\ n <= DeclaredUnits}

\* C17: when a source with an accepted data line has been transformed, the
\* file has not failed, and for every accepted line and every sensor index
\* with a name and a unit there is a record with TIME the first field of
\* the line, VALUE its field at the position after the index, the id, name
\* and unit of that index, and the plant, machine id, data label and file
\* name; there are no other records.
C17_PositionalValues ==
    (Transformed /\ AcceptedLines # {}) =>
        /\ vertical.status = "ok"
        /\ Len(vertical.records) =
              Cardinality(AcceptedLines) * Cardinality(NamedSensors)
        /\ \A r \in AcceptedLines, n \in NamedSensors :
              \E k \in DOMAIN vertical.records :
                  vertical.records[k] =
                      [TIME |-> DataLines[r][1],
                       VALUE |-> DataLines[r][n + 1],
                       PLANT |-> plant, MACHINE_ID |-> machine_id,
                       DATA_LABEL |-> data_label,
                       SENSOR_ID |-> source.lines[1][n + 1],
                       SENSOR_NAME |-> source.lines[2][n + 1],
                       SENSOR_UNIT |-> source.lines[3][n + 1],
                       file_name |-> file_name]

\* C18: a line after the three header lines becomes a row exactly when,
\* one trailing comma taken off, it has at least 1 + S fields; the other
\* lines are dropped, and dropping them does not fail the file: a source of
\* at least 4 lines is read, and what was read is transformed.
C18_ShortLinesDropped ==
    /\ rd.status = "rejected" => Len(source.lines) < 4
    /\ rd.status = "ok" => Len(rd.data) = Cardinality(AcceptedLines)
    /\ Transformed => vertical.status = "ok"

\* C19: with no file access and no store failure from outside, a file whose
\* TIME values match neither format and that reaches the reader is
\* transformed, and its records are imported and counted, whatever the
\* target table held before.
C19_TextTimeImported ==
    \A f \in Files :
        (RunEnded /\ faults = 0 /\ f \notin dirty /\ TextTime(content[f])
            /\ f \in FilesWith("read")) =>
            /\ f \in FilesWith("transform") \cap FilesWith("import")
            /\ outcome[f] = "loaded"
            /\ imported[f] = Len(LongRecords(f, content[f]))

\* C20: the days of the pass are taken in ascending order; when the rows of
\* a day are deleted from the target table, a row of each of their keys is
\* in the shadow table; the target table is dropped only after the last
\* day and holds no row when it is dropped; the shadow table takes its
\* name only when the target table is gone.
C20_CompactionStepOrder ==
    /\ [](pc \in {"c_day", "c_insert", "c_delete"} =>
            \A a, b \in DOMAIN dates : a < b => dates[a] < dates[b])
    /\ [][(pc = "c_delete" /\ table' # table) =>
            \A k \in DayIdx(table.rows, dates[d]) :
                Key(table.rows[k]) \in Keys(table_temp.rows)]_vars
    /\ [][(table.exists /\ ~table'.exists) =>
            (pc = "c_drop" /\ d > Len(dates) /\ table.rows = << >>)]_vars
    /\ [][(table_temp.exists /\ ~table_temp'.exists) =>
            (pc = "c_rename" /\ ~table.exists /\ table' = table_temp)]_vars

\* the ledger in memory holds the file under the hash of its present content
LedgerMatches(f) == IsProcessed(processed_files, f, MD5(content[f]))

\* C21: between runs, whatever failed in the runs so far, every
\* (TIME, SENSOR_ID) key produced by a file whose ledger entry matches its
\* present content is in the target table.
C21_LedgerTableConsistent ==
    RunEnded =>
        \A f \in Files :
            LedgerMatches(f) =>
                Keys(LongRecords(f, content[f])) \subseteq Keys(table.rows)

\* C22: when a run has returned no shadow table is left in the store, and
\* after a duplicate-elimination pass every row of the target table is a row
\* the target table held when the pass started.
C22_NoShadowLeak ==
    /\ RunEnded => ~table_temp.exists
    /\ (RunEnded /\ compacting = 2) =>
          \A k \in DOMAIN table.rows :
              \E m \in DOMAIN pre.rows : table.rows[k] = pre.rows[m]

\* every candidate of this run was skipped at the ledger gate
AllSkipped == \A f \in Files : outcome[f] = "skipped"

\* the target table and the ledger, in memory and on disk, are as they were
\* when this run started
FrameKept ==
    /\ table = tableAtStart
    /\ processed_files = ledgerAtStart.memory
    /\ ledger_file = ledgerAtStart.disk

\* C23: as long as a run has skipped every file it took, the target table and the
\* ledger (in memory and on disk, with the stored timestamps) are as they
\* were when it started; a run in which every candidate was skipped returns
\* 0 with both unchanged and without a duplicate-elimination pass.
C23_AllSkippedFrame ==
    /\ []((pc \in {"batch", "file", "gate", "after"}
             /\ \A f \in FilesWith("gate") : outcome[f] = "skipped")
            => FrameKept)
    /\ [][(pc # "idle" /\ pc' = "idle" /\ AllSkipped') =>
            (FrameKept' /\ ret' = 0 /\ compacting' = 0
             /\ table_temp' = table_temp)]_vars

C23_Witness ==
    /\ RunEnded
    /\ AllSkipped
    /\ FrameKept
    /\ ret = 0
    /\ table.rows # << >>
    /\ ledger_file.state = "ok"
    /\ Cardinality(DOMAIN processed_files) = NumFiles

\* C24: a call of import_dataframe that returns False leaves the rows of the
\* target table as they were; a call that returns True has appended every
\* row of the frame once, in order, to the rows the table held.
C24_ImportAllOrNothing ==
    [][pc = "import" =>
          IF outcome'[cur] = "loaded"
          THEN table'.rows = table.rows \o data
          ELSE table'.rows = table.rows]_vars
====
